---- MODULE Spec2Model ----
(***************************************************************************)
(* choptimize: decoding of the Gemini response mapping (types.py), the     *)
(* score labels, the terminal renderer (display/output.py) and the command *)
(* line run (cli.py, analysis/analyzer.py, api/gemini_client.py).          *)
(*                                                                         *)
(* Text is a sequence of tokens.  A token is a piece of plain text, a      *)
(* blank, or a rich markup tag.  Numbers are held in hundredths (7.5 is    *)
(* 750), NaN apart.  A JSON value is a record [k, n, s, l]: its kind, its  *)
(* number, its string and its list of strings.                             *)
(***************************************************************************)
EXTENDS Integers, Sequences, FiniteSets, TLC

VARIABLES
    pc,           \* where the process is
    argv,         \* the command line
    stdin,        \* standard input, once it has been looked at
    prompt_text,  \* the prompt run() analyses
    data,         \* the response mapping
    result,       \* what AnalysisResult.from_dict returned or raised
    exc,          \* the exception being handled
    out,          \* what was written to standard output
    err,          \* what was written to standard error
    exit_code,    \* the exit status, -1 while the process runs
    nRemote,      \* calls of the remote model
    nDecode,      \* calls of the decoder
    nRender,      \* calls of display_analysis
    interrupted,  \* a KeyboardInterrupt was raised
    score,        \* the scores given to get_score_assessment
    label         \* the labels it returned

vars == <<pc, argv, stdin, prompt_text, data, result, exc, out, err,
          exit_code, nRemote, nDecode, nRender, interrupted, score, label>>

----------------------------------------------------------------------------
(* Bounds *)

\* Fields in which a response mapping differs from a base mapping (decoder).
MaxDefects == 2
\* The same, for the responses the command-line run is given.
MaxRunDefects == 1
\* Scores run from -ScoreSpan to 10 + ScoreSpan.
ScoreSpan == 1

----------------------------------------------------------------------------
(* Text and rich markup *)

OpenTag == "[b]"
CloseTag == "[/b]"
Blank == " "

IsTag(t) == t \in {OpenTag, CloseTag}

\* str.strip(): leading and trailing blanks removed.
RECURSIVE LStrip(_)
LStrip(s) == IF s # <<>> /\ Head(s) = Blank THEN LStrip(Tail(s)) ELSE s

RECURSIVE RStrip(_)
RStrip(s) ==
    IF s # <<>> /\ s[Len(s)] = Blank THEN RStrip(SubSeq(s, 1, Len(s) - 1)) ELSE s

Strip(s) == RStrip(LStrip(s))

\* A rendered rich Text: its plain characters and the positions shown bold.
PlainText(s) == [ok |-> TRUE, plain |-> s, bold |-> {}]
MarkupFailure == [ok |-> FALSE, plain |-> <<>>, bold |-> {}]

\* rich.markup.render: tags are taken out of the text, an opening tag styles
\* what follows until its closing tag or the end of the text, a closing tag
\* with no tag open raises MarkupError.
RECURSIVE RenderFrom(_, _, _, _, _)
RenderFrom(s, i, depth, plain, bold) ==
    IF i > Len(s) THEN [ok |-> TRUE, plain |-> plain, bold |-> bold]
    ELSE IF s[i] = OpenTag THEN RenderFrom(s, i + 1, depth + 1, plain, bold)
    ELSE IF s[i] = CloseTag THEN
        IF depth = 0 THEN MarkupFailure
        ELSE RenderFrom(s, i + 1, depth - 1, plain, bold)
    ELSE RenderFrom(s, i + 1, depth, Append(plain, s[i]),
                    IF depth > 0 THEN bold \cup {Len(plain) + 1} ELSE bold)

from_markup(s) == RenderFrom(s, 1, 0, <<>>, {})

\* rich.markup.escape: a backslash is put before each tag.
EscapeToken(t) ==
    IF t = OpenTag THEN "\\[b]" ELSE IF t = CloseTag THEN "\\[/b]" ELSE t

escape(s) == [i \in 1..Len(s) |-> EscapeToken(s[i])]

\* s occurs in t as a run of consecutive tokens.
Contains(t, s) ==
    \E i \in 0..(Len(t) - Len(s)) : SubSeq(t, i + 1, i + Len(s)) = s

----------------------------------------------------------------------------
(* JSON values and the response mapping *)

Absent   == [k |-> "absent", n |-> 0, s |-> <<>>, l |-> <<>>]
JNull    == [k |-> "null",   n |-> 0, s |-> <<>>, l |-> <<>>]
JTrue    == [k |-> "true",   n |-> 0, s |-> <<>>, l |-> <<>>]
JFalse   == [k |-> "false",  n |-> 0, s |-> <<>>, l |-> <<>>]
JNaN     == [k |-> "nan",    n |-> 0, s |-> <<>>, l |-> <<>>]
JNum(n)  == [k |-> "num",    n |-> n, s |-> <<>>, l |-> <<>>]
JStr(s)  == [k |-> "str",    n |-> 0, s |-> s,    l |-> <<>>]
JList(l) == [k |-> "list",   n |-> 0, s |-> <<>>, l |-> l]

\* Python None, as the value of an attribute.
None == JNull

MetricNames == <<"specificity", "clarity", "context", "constraints", "brevity">>
MetricSet == {MetricNames[i] : i \in 1..Len(MetricNames)}

\* A value of the metrics mapping: absent, not a mapping, or a mapping.
Entry(k, sc, ex, su) ==
    [k |-> k, score |-> sc, explanation |-> ex, suggestions |-> su]
NoEntry == Entry("absent", Absent, Absent, Absent)
NullEntry == Entry("null", Absent, Absent, Absent)

NoMetric == Entry("null", None, None, None)

\* Numeric literals float() parses, in hundredths.
NumLit(t) == CASE t = "7" -> 700 [] t = "8.5" -> 850 [] OTHER -> -1
IsNumLit(t) == t \in {"7", "8.5"}

----------------------------------------------------------------------------
(* Python exceptions: the type, str(e) as text, and for a KeyError its key *)

Exc(type, msg, key) == [type |-> type, msg |-> msg, key |-> key]
NoExc == Exc("none", <<>>, "")

KeyError(key) == Exc("KeyError", <<"'", key, "'">>, key)

Ok(v) == [ok |-> TRUE, v |-> v, e |-> NoExc]
Raise(e) == [ok |-> FALSE, v |-> None, e |-> e]

\* data[key]: KeyError when the key is absent.
Item(v, key) == IF v.k = "absent" THEN Raise(KeyError(key)) ELSE Ok(v)

\* float(x)
float(v) ==
    CASE v.k = "num" -> Ok(v)
      [] v.k = "nan" -> Ok(v)
      [] v.k = "true" -> Ok(JNum(100))
      [] v.k = "false" -> Ok(JNum(0))
      [] v.k = "str" ->
            IF Len(Strip(v.s)) = 1 /\ IsNumLit(Strip(v.s)[1])
            THEN Ok(JNum(NumLit(Strip(v.s)[1])))
            ELSE Raise(Exc("ValueError",
                           <<"could not convert string to float: ", "'">> \o v.s \o <<"'">>,
                           ""))
      [] OTHER -> Raise(Exc("TypeError",
                            <<"float() argument must be a string or a real number">>, ""))

\* str(x), for the kinds of value the text fields are given
str(v) ==
    CASE v.k = "str" -> JStr(v.s)
      [] v.k = "null" -> JStr(<<"None">>)
      [] v.k = "true" -> JStr(<<"True">>)
      [] v.k = "false" -> JStr(<<"False">>)
      [] OTHER -> JStr(<<"repr">>)

\* list(x): a list is copied, a string gives its characters, None and
\* numbers are not iterable.
list(v) ==
    CASE v.k = "list" -> Ok(v)
      [] v.k = "str" -> Ok(JList([i \in 1..Len(v.s) |-> <<v.s[i]>>]))
      [] OTHER -> Raise(Exc("TypeError", <<"object is not iterable">>, ""))

----------------------------------------------------------------------------
(* types.py: Metric and AnalysisResult *)

\* The cause is left out of the message.
WrapNoCause(prefix, e) == Exc("ValueError", <<prefix>>, "")

\* raise ValueError(f"{prefix}{e}") from e
Wrap(prefix, e) == Exc("ValueError", <<prefix>> \o e.msg, e.key)

\* The first failure of a sequence of evaluations, 0 when none fails.
FirstFailure(steps) ==
    IF \A i \in 1..Len(steps) : steps[i].ok THEN 0
    ELSE CHOOSE i \in 1..Len(steps) :
            /\ ~steps[i].ok
            /\ \A j \in 1..(i - 1) : steps[j].ok

\* The keyword arguments of Metric(...), in the order they are evaluated.
MetricArgs(entry) ==
    IF entry.k # "obj"
    THEN <<Raise(Exc("TypeError", <<"'NoneType' object is not subscriptable">>, ""))>>
    ELSE << IF Item(entry.score, "score").ok
            THEN float(entry.score) ELSE Item(entry.score, "score"),
            IF Item(entry.explanation, "explanation").ok
            THEN Ok(str(entry.explanation)) ELSE Item(entry.explanation, "explanation"),
            IF entry.suggestions.k = "absent"
            THEN Ok(JList(<<>>)) ELSE list(entry.suggestions) >>

\* Metric.from_dict
Metric_from_dict(entry) ==
    LET args == MetricArgs(entry)
        bad == FirstFailure(args)
    IN  IF bad = 0
        THEN Ok(Entry("obj", args[1].v, args[2].v, args[3].v))
        ELSE Raise(Wrap("Invalid metric data: ", args[bad].e))

AnalysisResult(icr, os, oa, sp, cl, cx, cn, br, ip, vr) ==
    [is_coding_related |-> icr, overall_score |-> os, overall_assessment |-> oa,
     specificity |-> sp, clarity |-> cl, context |-> cx, constraints |-> cn,
     brevity |-> br, improved_prompt |-> ip, validation_reason |-> vr]

NoResult == AnalysisResult(FALSE, None, None, NoMetric, NoMetric, NoMetric,
                           NoMetric, NoMetric, None, None)

\* Only an absent or null flag counts as unset.
TruthyNotNone(v) == v.k \in {"absent", "true", "false"}

\* bool(data.get("is_coding_related", True))
Truthy(v) == v.k \in {"absent", "true"}

FallbackReason == JStr(<<"Not a coding prompt">>)

\* data.get(key, default)
Get(v, default) == IF v.k = "absent" THEN default ELSE v

\* metrics[name] followed by Metric.from_dict
MetricAt(d, name) ==
    IF d.metrics.k # "obj"
    THEN Raise(Exc("TypeError", <<"'NoneType' object is not subscriptable">>, ""))
    ELSE IF d.metrics.e[name].k = "absent" THEN Raise(KeyError(name))
    ELSE Metric_from_dict(d.metrics.e[name])

\* The evaluations of the full-analysis branch, in order.
AnalysisArgs(d) ==
    << IF d.metrics.k = "absent" THEN Raise(KeyError("metrics")) ELSE Ok(None),
       IF Item(d.overall_score, "overall_score").ok
       THEN float(d.overall_score) ELSE Item(d.overall_score, "overall_score"),
       IF Item(d.overall_assessment, "overall_assessment").ok
       THEN Ok(str(d.overall_assessment))
       ELSE Item(d.overall_assessment, "overall_assessment"),
       MetricAt(d, "specificity"),
       MetricAt(d, "clarity"),
       MetricAt(d, "context"),
       MetricAt(d, "constraints"),
       MetricAt(d, "brevity") >>

\* clarity and context change places.
from_dict_swapped(d) ==
    IF ~Truthy(d.is_coding_related)
    THEN Ok(AnalysisResult(FALSE, None, None, NoMetric, NoMetric, NoMetric,
                           NoMetric, NoMetric, None,
                           Get(d.reason, FallbackReason)))
    ELSE LET args == AnalysisArgs(d)
             bad == FirstFailure(args)
         IN  IF bad = 0
             THEN Ok(AnalysisResult(TRUE, args[2].v, args[3].v, args[4].v,
                                    args[6].v, args[5].v, args[7].v, args[8].v,
                                    Get(d.improved_prompt, None), None))
             ELSE Raise(Wrap("Invalid analysis data: ", args[bad].e))

\* AnalysisResult.from_dict
from_dict(d) ==
    IF ~Truthy(d.is_coding_related)
    THEN Ok(AnalysisResult(FALSE, None, None, NoMetric, NoMetric, NoMetric,
                           NoMetric, NoMetric, None,
                           Get(d.reason, FallbackReason)))
    ELSE LET args == AnalysisArgs(d)
             bad == FirstFailure(args)
         IN  IF bad = 0
             THEN Ok(AnalysisResult(TRUE, args[2].v, args[3].v, args[4].v,
                                    args[5].v, args[6].v, args[7].v, args[8].v,
                                    Get(d.improved_prompt, None), None))
             ELSE Raise(Wrap("Invalid analysis data: ", args[bad].e))

----------------------------------------------------------------------------
(* The response mappings the decoder is given *)

Mapping(icr, reason, os, oa, mk, e, ip) ==
    [is_coding_related |-> icr, reason |-> reason, overall_score |-> os,
     overall_assessment |-> oa, metrics |-> [k |-> mk, e |-> e],
     improved_prompt |-> ip]

NoEntries == [m \in MetricSet |-> NoEntry]

BaseScore(m) ==
    CASE m = "specificity" -> 900 [] m = "clarity" -> 700 [] m = "context" -> 500
      [] m = "constraints" -> 300 [] OTHER -> 100

\* A full analysis, as the system instructions ask for it.
FullBase ==
    Mapping(JTrue, Absent, JNum(850), JStr(<<"a">>), "obj",
            [m \in MetricSet |->
                Entry("obj", JNum(BaseScore(m)), JStr(<<"a">>), JList(<< <<"a">> >>))],
            JStr(<<"a">>))

\* A rejection.
RejectedBase ==
    Mapping(JFalse, JStr(<<"a">>), Absent, Absent, "absent", NoEntries, Absent)

\* The empty mapping.
EmptyBase == Mapping(Absent, Absent, Absent, Absent, "absent", NoEntries, Absent)

Bases == {FullBase, RejectedBase, EmptyBase}

\* Texts of the model: empty, plain, well-formed markup, an opening tag left
\* open, a closing tag that closes nothing.
FieldTexts ==
    { <<>>, <<"a">>, <<OpenTag, "a", CloseTag>>, <<OpenTag, "a">>, <<"a", CloseTag>> }

TextValues == {Absent, JNull} \cup {JStr(s) : s \in FieldTexts}

ScoreValues ==
    {Absent, JNull, JNaN, JTrue, JNum(250), JNum(1200), JStr(<<Blank, "7">>),
     JStr(<<"a", CloseTag>>)}

MetricScoreValues == {Absent, JStr(<<"8.5">>), JStr(<<"a">>)}

SuggestionValues == {Absent, JNull}

Defect(slot, name, v) == [slot |-> slot, name |-> name, v |-> v]

Defects ==
    {Defect("is_coding_related", "", v) : v \in {Absent, JTrue, JFalse, JNull}}
    \cup {Defect("reason", "", v) : v \in TextValues}
    \cup {Defect("overall_score", "", v) : v \in ScoreValues}
    \cup {Defect("overall_assessment", "", v) : v \in TextValues}
    \cup {Defect("improved_prompt", "", v) : v \in TextValues}
    \cup {Defect("metrics", "", v) : v \in {Absent, JNull}}
    \cup {Defect("entry", m, v) : m \in MetricSet, v \in {Absent, JNull}}
    \cup {Defect("score", m, v) : m \in MetricSet, v \in MetricScoreValues}
    \cup {Defect("explanation", m, v) : m \in MetricSet, v \in {Absent}}
    \cup {Defect("suggestions", m, v) : m \in MetricSet, v \in SuggestionValues}

\* An entry that is a mapping; one made from nothing holds no key.
AsObj(entry) == IF entry.k = "obj" THEN entry ELSE Entry("obj", Absent, Absent, Absent)

Apply(d, x) ==
    CASE x.slot = "is_coding_related" -> [d EXCEPT !.is_coding_related = x.v]
      [] x.slot = "reason" -> [d EXCEPT !.reason = x.v]
      [] x.slot = "overall_score" -> [d EXCEPT !.overall_score = x.v]
      [] x.slot = "overall_assessment" -> [d EXCEPT !.overall_assessment = x.v]
      [] x.slot = "improved_prompt" -> [d EXCEPT !.improved_prompt = x.v]
      [] x.slot = "metrics" -> [d EXCEPT !.metrics = [k |-> x.v.k, e |-> NoEntries]]
      [] x.slot = "entry" ->
            [d EXCEPT !.metrics =
                [k |-> "obj",
                 e |-> [@.e EXCEPT ![x.name] =
                            IF x.v.k = "absent" THEN NoEntry ELSE NullEntry]]]
      [] x.slot = "score" ->
            [d EXCEPT !.metrics =
                [k |-> "obj",
                 e |-> [@.e EXCEPT ![x.name] = [AsObj(@) EXCEPT !.score = x.v]]]]
      [] x.slot = "explanation" ->
            [d EXCEPT !.metrics =
                [k |-> "obj",
                 e |-> [@.e EXCEPT ![x.name] = [AsObj(@) EXCEPT !.explanation = x.v]]]]
      [] OTHER ->
            [d EXCEPT !.metrics =
                [k |-> "obj",
                 e |-> [@.e EXCEPT ![x.name] = [AsObj(@) EXCEPT !.suggestions = x.v]]]]

\* The mappings that differ from a base in at most n places.
RECURSIVE MappingsWithin(_)
MappingsWithin(n) ==
    IF n = 0 THEN Bases
    ELSE LET fewer == MappingsWithin(n - 1)
         IN  fewer \cup {Apply(d, x) : d \in fewer, x \in Defects}

Mappings == MappingsWithin(MaxDefects)
RunMappings == MappingsWithin(MaxRunDefects)

----------------------------------------------------------------------------
(* The decoder alone *)

Argv(kind, prompt, bad) == [kind |-> kind, prompt |-> prompt, bad |-> bad]
Stdin(tty, text) == [tty |-> tty, text |-> text]

\* No command line is being run.
RunIdle ==
    /\ argv = Argv("ok", None, <<>>) /\ stdin = Stdin(TRUE, <<>>)
    /\ prompt_text = <<>> /\ exc = NoExc
    /\ out = <<>> /\ err = <<>> /\ exit_code = -1
    /\ nRemote = 0 /\ nDecode = 0 /\ nRender = 0 /\ interrupted = FALSE

InitDecode ==
    /\ pc = "decode"
    /\ data \in Mappings
    /\ result = Ok(NoResult)
    /\ RunIdle
    /\ score = <<JNaN, JNaN>> /\ label = <<"", "">>

Decode ==
    /\ pc = "decode"
    /\ result' = from_dict(data)
    /\ pc' = "decoded"
    /\ nDecode' = nDecode + 1
    /\ UNCHANGED <<argv, stdin, prompt_text, data, exc, out, err, exit_code,
                   nRemote, nRender, interrupted, score, label>>

NextDecode == Decode

SpecDecode == InitDecode /\ [][NextDecode]_vars

----------------------------------------------------------------------------
(* What a mapping holds, read off the mapping itself *)

\* A value float() accepts.
Coercible(v) ==
    \/ v.k \in {"num", "nan", "true", "false"}
    \/ v.k = "str" /\ Len(Strip(v.s)) = 1 /\ IsNumLit(Strip(v.s)[1])

\* The number float() gives for it.
NumberOf(v) ==
    CASE v.k \in {"num", "nan"} -> v
      [] v.k = "true" -> JNum(100)
      [] v.k = "false" -> JNum(0)
      [] OTHER -> JNum(NumLit(Strip(v.s)[1]))

HasScoreAndExplanation(en) ==
    en.k = "obj" /\ Coercible(en.score) /\ en.explanation.k # "absent"

Iterable(v) == v.k \in {"list", "str"}

\* The precondition of C1 as the claim words it.
FullAnalysisMapping(d) ==
    /\ d.is_coding_related.k = "true"
    /\ Coercible(d.overall_score)
    /\ d.overall_assessment.k # "absent"
    /\ d.metrics.k = "obj"
    /\ \A m \in MetricSet : HasScoreAndExplanation(d.metrics.e[m])

SuggestionsIterable(d) ==
    \A m \in MetricSet :
        d.metrics.e[m].suggestions.k = "absent" \/ Iterable(d.metrics.e[m].suggestions)

\* The metric field of a result, by name.
MetricField(r, m) ==
    CASE m = "specificity" -> r.specificity [] m = "clarity" -> r.clarity
      [] m = "context" -> r.context [] m = "constraints" -> r.constraints
      [] OTHER -> r.brevity

FullyDecoded(d, res) ==
    /\ res.ok
    /\ res.v.is_coding_related
    /\ \A m \in MetricSet :
         /\ MetricField(res.v, m) # NoMetric
         /\ MetricField(res.v, m).score = NumberOf(d.metrics.e[m].score)
         /\ MetricField(res.v, m).explanation = str(d.metrics.e[m].explanation)

\* C1 as stated: every mapping with is_coding_related true, a coercible
\* overall_score, an overall_assessment and five metric entries, each with a
\* coercible score and an explanation, decodes to a full result whose five
\* metrics are those of the entries of the same name.
C1_AsStated ==
    (pc = "decoded" /\ FullAnalysisMapping(data)) => FullyDecoded(data, result)

\* C1 amended: the same, for the mappings in which every entry's suggestions
\* are absent or iterable (a list or a string).
C1_FullAnalysisDecodes ==
    (pc = "decoded" /\ FullAnalysisMapping(data) /\ SuggestionsIterable(data))
        => FullyDecoded(data, result)

\* A full mapping whose overall_score is a numeric string has been decoded.
C1_Witness ==
    /\ pc = "decoded" /\ FullAnalysisMapping(data) /\ SuggestionsIterable(data)
    /\ data.overall_score.k = "str"
    /\ \E m \in MetricSet : data.metrics.e[m].score.k = "str"
    /\ result.ok /\ result.v.clarity.score # result.v.context.score

AnalysisFieldsNull(r) ==
    /\ r.overall_score = None /\ r.overall_assessment = None
    /\ \A m \in MetricSet : MetricField(r, m) = NoMetric
    /\ r.improved_prompt = None

\* C2: a mapping with is_coding_related false decodes, whatever else it
\* holds, to a result with is_coding_related false, validation_reason the
\* mapping's reason (the fallback string when reason is absent) and every
\* analysis field null.
C2_RejectedDecodes ==
    (pc = "decoded" /\ data.is_coding_related.k = "false") =>
        /\ result.ok
        /\ ~result.v.is_coding_related
        /\ result.v.validation_reason =
              (IF data.reason.k = "absent" THEN JStr(<<"Not a coding prompt">>)
               ELSE data.reason)
        /\ AnalysisFieldsNull(result.v)

\* A rejection with no reason and with analysis fields present has been decoded.
C2_Witness ==
    /\ pc = "decoded" /\ data.is_coding_related.k = "false"
    /\ data.reason.k = "absent" /\ data.metrics.k = "obj"
    /\ data.overall_score.k # "absent"
    /\ result.ok /\ result.v.validation_reason = FallbackReason

----------------------------------------------------------------------------
(* Missing fields *)

Required ==
    <<"metrics", "overall_score", "overall_assessment",
      "specificity", "clarity", "context", "constraints", "brevity">>

IsMissing(d, i) ==
    CASE i = 1 -> d.metrics.k = "absent"
      [] i = 2 -> d.overall_score.k = "absent"
      [] i = 3 -> d.overall_assessment.k = "absent"
      [] OTHER -> d.metrics.k = "obj" /\ d.metrics.e[Required[i]].k = "absent"

\* Present and of the shape the decoder accepts.
WellFormed(d, i) ==
    CASE i = 1 -> d.metrics.k # "absent"
      [] i = 2 -> Coercible(d.overall_score)
      [] i = 3 -> d.overall_assessment.k # "absent"
      [] OTHER ->
            /\ d.metrics.k = "obj"
            /\ HasScoreAndExplanation(d.metrics.e[Required[i]])
            /\ \/ d.metrics.e[Required[i]].suggestions.k = "absent"
               \/ Iterable(d.metrics.e[Required[i]].suggestions)

SomethingMissing(d) == \E i \in 1..Len(Required) : IsMissing(d, i)

\* The message names key, quoted as a KeyError prints it.
Names(e, key) == Contains(e.msg, <<"'", key, "'">>)

RelatedOrUnset(d) == d.is_coding_related.k \in {"true", "absent"}

----------------------------------------------------------------------------
(* The two variants *)

FullVariant(r) ==
    /\ r.is_coding_related
    /\ r.overall_score # None /\ r.overall_assessment # None
    /\ \A m \in MetricSet : MetricField(r, m) # NoMetric
    /\ r.validation_reason = None

RejectedVariant(r) ==
    /\ ~r.is_coding_related
    /\ r.validation_reason # None
    /\ AnalysisFieldsNull(r)

\* C4: every result from_dict returns is the full variant (related, score,
\* assessment and five metrics set, no validation_reason) or the rejected
\* variant (not related, validation_reason set, every analysis field null).
C4_TwoVariants ==
    (pc = "decoded" /\ result.ok) =>
        (FullVariant(result.v) \/ RejectedVariant(result.v))

----------------------------------------------------------------------------
(* types.py: get_score_assessment *)

\* score >= n, false for NaN
AtLeast(sc, n) == sc.k = "num" /\ sc.n >= n * 100

\* score > n, false for NaN
MoreThan(sc, n) == sc.k = "num" /\ sc.n > n * 100

\* The thresholds taken as exclusive.
get_score_assessment_exclusive(sc) ==
    IF MoreThan(sc, 9) THEN "Excellent"
    ELSE IF MoreThan(sc, 7) THEN "Good"
    ELSE IF MoreThan(sc, 5) THEN "Fair"
    ELSE IF MoreThan(sc, 3) THEN "Needs improvement"
    ELSE "Poor"

get_score_assessment(sc) ==
    IF AtLeast(sc, 9) THEN "Excellent"
    ELSE IF AtLeast(sc, 7) THEN "Good"
    ELSE IF AtLeast(sc, 5) THEN "Fair"
    ELSE IF AtLeast(sc, 3) THEN "Needs improvement"
    ELSE "Poor"

\* Scores around every whole number from -ScoreSpan to 10 + ScoreSpan, and NaN.
ScoreInputs ==
    {JNum(100 * u + o) : u \in (0 - ScoreSpan)..(10 + ScoreSpan), o \in {-1, 0, 1, 50}}
    \cup {JNaN}

\* Two scores are labelled, as the overall score and a metric's score are.
InitScore ==
    /\ pc = "score"
    /\ score \in ScoreInputs \X ScoreInputs
    /\ label = <<"", "">>
    /\ data = EmptyBase /\ result = Ok(NoResult)
    /\ RunIdle

Assess ==
    /\ pc = "score"
    /\ label' = <<get_score_assessment(score[1]), get_score_assessment(score[2])>>
    /\ pc' = "scored"
    /\ UNCHANGED <<argv, stdin, prompt_text, data, result, exc, out, err, exit_code,
                   nRemote, nDecode, nRender, interrupted, score>>

NextScore == Assess

SpecScore == InitScore /\ [][NextScore]_vars

\* The table of the claim, in hundredths.
LabelOf(sc) ==
    IF sc.k = "num" /\ sc.n >= 900 THEN "Excellent"
    ELSE IF sc.k = "num" /\ 700 <= sc.n /\ sc.n < 900 THEN "Good"
    ELSE IF sc.k = "num" /\ 500 <= sc.n /\ sc.n < 700 THEN "Fair"
    ELSE IF sc.k = "num" /\ 300 <= sc.n /\ sc.n < 500 THEN "Needs improvement"
    ELSE "Poor"

Rank(l) ==
    CASE l = "Excellent" -> 4 [] l = "Good" -> 3 [] l = "Fair" -> 2
      [] l = "Needs improvement" -> 1 [] l = "Poor" -> 0 [] OTHER -> -1

\* C5: get_score_assessment gives every score a label, Excellent from 9,
\* Good from 7, Fair from 5, Needs improvement from 3 and Poor below (each
\* threshold inclusive, scores outside 1..10 included), and a lower score
\* never gets a better label than a higher one.
C5_ScoreAssessment ==
    pc = "scored" =>
        /\ \A i \in 1..2 : label[i] = LabelOf(score[i]) /\ Rank(label[i]) >= 0
        /\ (score[1].k = "num" /\ score[2].k = "num" /\ score[1].n <= score[2].n)
              => Rank(label[1]) <= Rank(label[2])

\* A score just under a threshold and the threshold itself have been labelled.
C5_Witness ==
    /\ pc = "scored"
    /\ score[1] = JNum(899) /\ score[2] = JNum(900)
    /\ label = <<"Good", "Excellent">>

----------------------------------------------------------------------------
(* The console handles and echo_err (display/output.py) *)

\* The handles cout and cerr interpret rich markup in the strings they print.
ConsoleMarkup == TRUE

\* Console.print of a string: the text as shown, or MarkupError.
console_render(s) == IF ConsoleMarkup THEN from_markup(s) ELSE PlainText(s)

\* str() of the MarkupError a closing tag with nothing open raises; it quotes
\* the tag.
MarkupError ==
    Exc("MarkupError",
        <<"closing tag '", CloseTag, "' doesn't match any open tag">>, "")

\* The string echo_err prints; [status.error] is an opening tag.
ErrMsg(prefix, msg, has_sup, msg_sup) ==
    LET msg_common == <<OpenTag, prefix, CloseTag, Blank>> \o msg
    IN  IF ~has_sup THEN msg_common
        ELSE msg_common \o <<"\n", Blank, OpenTag, ">", CloseTag, Blank>> \o msg_sup

ErrLine(via, text) == [via |-> via, text |-> text]

\* What the interpreter writes for an exception nobody catches: the
\* messages of the exception and of the one it was raised while handling.
Traceback(e, during) == ErrLine("traceback", <<"Traceback">> \o during.msg \o e.msg)

\* A block written to standard output.
Block(section, kind, shown, rows) ==
    [section |-> section, kind |-> kind, text |-> shown.plain,
     bold |-> shown.bold, rows |-> rows]

----------------------------------------------------------------------------
(* cli.py: the command line *)

PromptTexts ==
    { <<>>, <<Blank>>, <<"a">>, <<Blank, "a", Blank>>, <<"a", OpenTag>>,
      <<"a", CloseTag>> }

ArgvInputs ==
    {Argv("help", None, <<>>), Argv("version", None, <<>>)}
    \cup {Argv("invalid", None, b) : b \in {<<"--x">>, <<CloseTag>>}}
    \cup {Argv("ok", p, <<>>) : p \in {None} \cup {JStr(s) : s \in PromptTexts}}

StdinInputs == {Stdin(TRUE, <<>>)} \cup {Stdin(FALSE, s) : s \in PromptTexts}

Init ==
    /\ pc = "start"
    /\ argv \in ArgvInputs
    /\ stdin \in (IF argv.kind = "ok" /\ argv.prompt = None
                  THEN StdinInputs ELSE {Stdin(TRUE, <<>>)})
    /\ prompt_text = <<>>
    /\ data = EmptyBase /\ result = Ok(NoResult) /\ exc = NoExc
    /\ out = <<>> /\ err = <<>> /\ exit_code = -1
    /\ nRemote = 0 /\ nDecode = 0 /\ nRender = 0 /\ interrupted = FALSE
    /\ score = <<JNaN, JNaN>> /\ label = <<"", "">>

\* sys.exit(code): SystemExit is no Exception, so no handler of run() takes it.
Exit(code) == pc' = "exited" /\ exit_code' = code

\* A failed remote call is made again.
RaiseInRunRetried(e) ==
    /\ exc' = e
    /\ pc' = IF pc = "remote" /\ nRemote < 2 THEN "remote"
             ELSE IF e.type = "PromptAnalysisError" THEN "except_analysis"
             ELSE "except_unexpected"

\* raise e, inside the try block of run()
RaiseInRun(e) ==
    /\ exc' = e
    /\ pc' = IF e.type = "PromptAnalysisError" THEN "except_analysis"
             ELSE "except_unexpected"

PromptAnalysisError(msg) == Exc("PromptAnalysisError", msg, "")

\* parser.parse_args(): -h and -V leave with status 0; ArgParser.error prints
\* the message through cerr and leaves with status 0.
ParseArgs ==
    /\ pc = "start"
    /\ \/ /\ argv.kind = "help"
          /\ out' = Append(out, Block("help", "text", PlainText(<<"usage">>), <<>>))
          /\ Exit(0)
          /\ UNCHANGED <<err, exc>>
       \/ /\ argv.kind = "version"
          /\ out' = Append(out, Block("version", "text", PlainText(<<"v0.1.0">>), <<>>))
          /\ Exit(0)
          /\ UNCHANGED <<err, exc>>
       \/ /\ argv.kind = "invalid"
          /\ LET shown == console_render(<<OpenTag, "choptimize: error:", CloseTag, Blank,
                                           "unrecognized arguments: ">> \o argv.bad)
             IN  IF shown.ok
                 THEN /\ err' = Append(err, ErrLine("argparse", shown.plain))
                      /\ out' = Append(out, Block("usage", "text",
                                                  PlainText(<<"usage">>), <<>>))
                      /\ Exit(0)
                      /\ UNCHANGED exc
                 ELSE /\ RaiseInRun(MarkupError)
                      /\ UNCHANGED <<out, err, exit_code>>
       \/ /\ argv.kind = "ok"
          /\ pc' = "get_prompt"
          /\ UNCHANGED <<out, err, exc, exit_code>>
    /\ UNCHANGED <<argv, stdin, prompt_text, data, result, nRemote, nDecode,
                   nRender, interrupted, score, label>>

\* get_prompt_input: the argument as it is, or standard input stripped; an
\* empty prompt is refused.
GetPromptInput ==
    /\ pc = "get_prompt"
    /\ LET prompt == IF argv.prompt # None THEN argv.prompt.s ELSE Strip(stdin.text)
       IN  IF argv.prompt = None /\ stdin.tty
           THEN /\ err' = Append(err, ErrLine("echo_err",
                        console_render(ErrMsg("Error:", <<"no prompt provided">>, TRUE,
                            <<"provide as argument or via pipe">>)).plain))
                /\ Exit(1)
                /\ UNCHANGED prompt_text
           ELSE IF prompt = <<>>
           THEN /\ err' = Append(err, ErrLine("echo_err",
                        console_render(ErrMsg("Error:", <<"empty prompt provided">>,
                                              FALSE, <<>>)).plain))
                /\ Exit(1)
                /\ UNCHANGED prompt_text
           ELSE /\ prompt_text' = prompt
                /\ pc' = "config"
                /\ UNCHANGED <<err, exit_code>>
    /\ UNCHANGED <<argv, stdin, data, result, exc, out, nRemote, nDecode,
                   nRender, interrupted, score, label>>

----------------------------------------------------------------------------
(* analysis/analyzer.py and api/gemini_client.py: analyze_prompt *)

\* create_gemini_config: KeyError when GEMINI_API_KEY is not set.
CreateConfig ==
    /\ pc = "config"
    /\ \E have_key \in BOOLEAN :
          IF have_key
          THEN pc' = "remote" /\ UNCHANGED exc
          ELSE RaiseInRun(PromptAnalysisError(
                   <<"Configuration error: ", "'",
                     "GEMINI_API_KEY not found in environment variables", "'">>))
    /\ UNCHANGED <<argv, stdin, prompt_text, data, result, out, err, exit_code,
                   nRemote, nDecode, nRender, interrupted, score, label>>

\* What the remote call can come to: an exception of the client library, a
\* response without text, text that is no JSON, JSON that is no object, a
\* mapping.
GeminiClientError(msg) == <<"Error calling Gemini API: ">> \o msg

RemoteFailures ==
    { <<"unavailable">>,
      <<"No response from Gemini API">> }
    \cup { <<"Failed to parse Gemini response as JSON: ", "Expecting value",
              "\n", "Response: ">> \o body
           : body \in {<<"a">>, <<"a", CloseTag>>} }

\* client.analyze_prompt, once, and what analyzer.analyze_prompt makes of
\* its failure.
CallGemini ==
    /\ pc = "remote"
    /\ nRemote' = nRemote + 1
    /\ \/ \E failure \in RemoteFailures :
             /\ RaiseInRun(PromptAnalysisError(
                    <<"Error analyzing prompt: ">> \o GeminiClientError(failure)))
             /\ UNCHANGED data
       \/ /\ pc' = "decode_nonmapping"
          /\ UNCHANGED <<data, exc>>
       \/ \E d \in RunMappings :
             /\ data' = d
             /\ pc' = "decode"
             /\ UNCHANGED exc
    /\ UNCHANGED <<argv, stdin, prompt_text, result, out, err, exit_code,
                   nDecode, nRender, interrupted, score, label>>

\* AnalysisResult.from_dict(analysis_dict); a ValueError becomes a
\* PromptAnalysisError.
DecodeResponse ==
    /\ pc = "decode"
    /\ nDecode' = nDecode + 1
    /\ result' = from_dict(data)
    /\ IF result'.ok
       THEN pc' = "check" /\ UNCHANGED exc
       ELSE RaiseInRun(PromptAnalysisError(
                <<"Received invalid analysis format from Gemini: ">> \o result'.e.msg))
    /\ UNCHANGED <<argv, stdin, prompt_text, data, out, err, exit_code,
                   nRemote, nRender, interrupted, score, label>>

\* from_dict of a JSON list, string or number: data.get raises
\* AttributeError, which analyze_prompt does not catch.
DecodeNonMapping ==
    /\ pc = "decode_nonmapping"
    /\ nDecode' = nDecode + 1
    /\ RaiseInRun(Exc("AttributeError", <<"'list' object has no attribute 'get'">>, ""))
    /\ UNCHANGED <<argv, stdin, prompt_text, data, result, out, err, exit_code,
                   nRemote, nRender, interrupted, score, label>>

\* f"{result.validation_reason}"
Formatted(v) == str(v).s

\* analyze_prompt returns every result it gets from the decoder.
CheckCodingRelatedSkipped ==
    /\ pc = "check"
    /\ pc' = "display_1"
    /\ UNCHANGED <<argv, stdin, prompt_text, data, result, exc, out, err,
                   exit_code, nRemote, nDecode, nRender, interrupted, score, label>>

\* if not result.is_coding_related: raise PromptAnalysisError(...)
CheckCodingRelated ==
    /\ pc = "check"
    /\ IF ~result.v.is_coding_related
       THEN RaiseInRun(PromptAnalysisError(
                <<"This prompt does not appear to be coding-related", "\n", "\n",
                  OpenTag, "Reason:", CloseTag, Blank>>
                \o Formatted(result.v.validation_reason)))
       ELSE pc' = "display_1" /\ UNCHANGED exc
    /\ UNCHANGED <<argv, stdin, prompt_text, data, result, out, err, exit_code,
                   nRemote, nDecode, nRender, interrupted, score, label>>

----------------------------------------------------------------------------
(* display/output.py: display_analysis *)

_get_score_style(sc) ==
    IF AtLeast(sc, 9) THEN "score.excellent"
    ELSE IF AtLeast(sc, 7) THEN "score.good"
    ELSE IF AtLeast(sc, 5) THEN "score.fair"
    ELSE IF AtLeast(sc, 3) THEN "score.poor"
    ELSE "score.very_poor"

\* Text.from_markup(text), or Text(escape(text)) when that raises.
_safe_render_markup(text) ==
    IF from_markup(text).ok THEN from_markup(text) ELSE PlainText(escape(text))

Header(section) == Block(section, "header", PlainText(<<section>>), <<>>)

Row(name, sc) ==
    [name |-> name, score |-> sc, style |-> _get_score_style(sc),
     label |-> get_score_assessment(sc)]

\* _create_overall_score_display and _create_metrics_table
AnalysisRows(a) ==
    << Row("Overall Score", a.overall_score),
       Row("Specificity", a.specificity.score),
       Row("Clarity", a.clarity.score),
       Row("Context", a.context.score),
       Row("Constraints", a.constraints.score),
       Row("Brevity", a.brevity.score) >>

\* _create_recommendations_list
RECURSIVE RecommendationItems(_, _)
RecommendationItems(recs, i) ==
    IF i > Len(recs) THEN <<>>
    ELSE _safe_render_markup(<<Blank, OpenTag, "n.", CloseTag, Blank>> \o recs[i]).plain
         \o RecommendationItems(recs, i + 1)

analysis == result.v

\* Section 1: the header, then Panel(user_prompt); a Panel renders a string
\* through the console.
Section1 ==
    /\ pc = "display_1"
    /\ nRender' = nRender + 1
    /\ IF console_render(prompt_text).ok
       THEN /\ out' = out \o << Header("Your Prompt"),
                                Block("Your Prompt", "panel",
                                      console_render(prompt_text), <<>>) >>
            /\ pc' = "display_2"
            /\ UNCHANGED exc
       ELSE /\ out' = Append(out, Header("Your Prompt"))
            /\ RaiseInRun(MarkupError)
    /\ UNCHANGED <<argv, stdin, prompt_text, data, result, err, exit_code,
                   nRemote, nDecode, interrupted, score, label>>

\* Section 2: the overall score and the metrics table.
Section2 ==
    /\ pc = "display_2"
    /\ out' = out \o << Header("Quality Analysis"),
                        Block("Quality Analysis", "panel", PlainText(<<>>),
                              AnalysisRows(analysis)) >>
    /\ pc' = "display_3"
    /\ UNCHANGED <<argv, stdin, prompt_text, data, result, exc, err, exit_code,
                   nRemote, nDecode, nRender, interrupted, score, label>>

\* Section 3: the assessment.
Section3 ==
    /\ pc = "display_3"
    /\ out' = out \o << Header("Detailed Assessment"),
                        Block("Detailed Assessment", "panel",
                              _safe_render_markup(analysis.overall_assessment.s), <<>>) >>
    /\ pc' = "display_4"
    /\ UNCHANGED <<argv, stdin, prompt_text, data, result, exc, err, exit_code,
                   nRemote, nDecode, nRender, interrupted, score, label>>

\* bool(x) of a list or of an optional string
NonEmpty(v) == (v.k = "list" /\ v.l # <<>>) \/ (v.k = "str" /\ v.s # <<>>)

RecommendationBlocks(a) ==
    IF NonEmpty(a["recommendations"])
    THEN << Header("Recommendations"),
            Block("Recommendations", "panel",
                  PlainText(RecommendationItems(a["recommendations"].l, 1)), <<>>) >>
    ELSE <<>>

ImprovedBlocks(a) ==
    IF NonEmpty(a.improved_prompt)
    THEN << Header("Improved Prompt"),
            Block("Improved Prompt", "panel",
                  _safe_render_markup(a.improved_prompt.s), <<>>) >>
    ELSE <<>>

\* Sections 4 and 5.  analysis.recommendations is read first: an
\* AnalysisResult has no such attribute and the read raises AttributeError.
Section4and5 ==
    /\ pc = "display_4"
    /\ IF "recommendations" \in DOMAIN analysis
       THEN /\ out' = out \o RecommendationBlocks(analysis) \o ImprovedBlocks(analysis)
            /\ Exit(0)
            /\ UNCHANGED exc
       ELSE /\ RaiseInRun(Exc("AttributeError",
                   <<"'AnalysisResult' object has no attribute 'recommendations'">>, ""))
            /\ UNCHANGED <<out, exit_code>>
    /\ UNCHANGED <<argv, stdin, prompt_text, data, result, err,
                   nRemote, nDecode, nRender, interrupted, score, label>>

----------------------------------------------------------------------------
(* cli.py: the handlers of run() *)

\* echo_err(msg, str(e), prefix, then_exit_with=code) in a handler: when
\* cerr.print raises, nothing catches it and the interpreter ends the
\* process with status 1.
EchoErrAndExit(prefix, msg, has_sup, code) ==
    LET shown == console_render(ErrMsg(prefix, msg, has_sup, exc.msg))
    IN  IF shown.ok
        THEN err' = Append(err, ErrLine("echo_err", shown.plain)) /\ Exit(code)
        ELSE err' = Append(err, Traceback(MarkupError, exc)) /\ Exit(1)

HandleAnalysisError ==
    /\ pc = "except_analysis"
    /\ EchoErrAndExit("Error:", <<"error analyzing prompt">>, TRUE, 1)
    /\ UNCHANGED <<argv, stdin, prompt_text, data, result, exc, out,
                   nRemote, nDecode, nRender, interrupted, score, label>>

HandleUnexpected ==
    /\ pc = "except_unexpected"
    /\ EchoErrAndExit("Error:", <<"unexpected error">>, TRUE, 1)
    /\ UNCHANGED <<argv, stdin, prompt_text, data, result, exc, out,
                   nRemote, nDecode, nRender, interrupted, score, label>>

HandleInterrupt ==
    /\ pc = "except_interrupt"
    /\ EchoErrAndExit("!", <<"keyboard interrupt raised">>, FALSE, 0)
    /\ UNCHANGED <<argv, stdin, prompt_text, data, result, exc, out,
                   nRemote, nDecode, nRender, interrupted, score, label>>

TryBlock ==
    {"start", "get_prompt", "config", "remote", "decode", "decode_nonmapping",
     "check", "display_1", "display_2", "display_3", "display_4"}

\* KeyboardInterrupt taken by the handler of Exception.
InterruptAsException ==
    /\ pc \in TryBlock
    /\ interrupted' = TRUE
    /\ exc' = Exc("KeyboardInterrupt", <<>>, "")
    /\ pc' = "except_unexpected"
    /\ UNCHANGED <<argv, stdin, prompt_text, data, result, out, err, exit_code,
                   nRemote, nDecode, nRender, score, label>>

\* The user interrupts the process while the try block of run() executes.
Interrupt ==
    /\ pc \in TryBlock
    /\ interrupted' = TRUE
    /\ exc' = Exc("KeyboardInterrupt", <<>>, "")
    /\ pc' = "except_interrupt"
    /\ UNCHANGED <<argv, stdin, prompt_text, data, result, out, err, exit_code,
                   nRemote, nDecode, nRender, score, label>>

Next ==
    \/ ParseArgs
    \/ GetPromptInput
    \/ CreateConfig
    \/ CallGemini
    \/ DecodeResponse
    \/ DecodeNonMapping
    \/ CheckCodingRelated
    \/ Section1
    \/ Section2
    \/ Section3
    \/ Section4and5
    \/ HandleAnalysisError
    \/ HandleUnexpected
    \/ HandleInterrupt
    \/ Interrupt

Spec == Init /\ [][Next]_vars

----------------------------------------------------------------------------
(* The renderer and the run *)

Finished == pc = "exited" /\ ~interrupted

\* display_analysis raised: after it has begun, only it puts an exception
\* in front of the handlers.
DisplayRaised ==
    nRender > 0 /\ ~interrupted /\ exc.type \in {"AttributeError", "MarkupError"}

\* The prompt holds no markup tag.
PlainPrompt == \A i \in 1..Len(prompt_text) : ~IsTag(prompt_text[i])

\* C6: display_analysis, given a result from_dict returned for a full
\* analysis and a prompt, runs to its end without raising (stated here for
\* the prompts that hold no markup tag).
C6_DisplayCompletes == PlainPrompt => ~DisplayRaised

\* The sections whose panel was written, in the order written.
Sections == SelectSeq(out, LAMBDA b : b.kind = "panel")

SectionNames == [i \in 1..Len(Sections) |-> Sections[i].section]

\* The suggestions of the five metrics, the only recommendations a result holds.
HasSuggestions(a) ==
    \E m \in MetricSet : NonEmpty(MetricField(a, m).suggestions)

ExpectedSections(a) ==
    <<"Your Prompt", "Quality Analysis", "Detailed Assessment">>
    \o (IF HasSuggestions(a) THEN <<"Recommendations">> ELSE <<>>)
    \o (IF NonEmpty(a.improved_prompt) THEN <<"Improved Prompt">> ELSE <<>>)

\* C7: display_analysis writes prompt, analysis and assessment, then the
\* recommendations if and only if there are any, then the improved prompt
\* if and only if improved_prompt is neither null nor empty, in that order
\* (stated here for the prompts that hold no markup tag).
C7_SectionOrder ==
    (Finished /\ nRender > 0 /\ PlainPrompt)
        => SectionNames = ExpectedSections(analysis)

\* The assessment of the result is malformed markup and its panel was written.
AssessmentFellBack ==
    /\ nRender > 0
    /\ ~from_markup(analysis.overall_assessment.s).ok
    /\ \E i \in 1..Len(Sections) : Sections[i].section = "Detailed Assessment"

\* C8: when the markup of a model-produced text cannot be interpreted, the
\* renderer shows the text escaped, does not raise, and goes on with the
\* remaining sections.
C8_MarkupFallback ==
    AssessmentFellBack =>
        /\ \A i \in 1..Len(Sections) :
              Sections[i].section = "Detailed Assessment"
                  => Sections[i].text = escape(analysis.overall_assessment.s)
        /\ ~DisplayRaised
        /\ Finished =>
              (NonEmpty(analysis.improved_prompt)
                  <=> \E i \in 1..Len(Sections) : Sections[i].section = "Improved Prompt")

\* The response said the prompt is not about coding, and gave a reason.
Rejected ==
    /\ nDecode > 0
    /\ data.is_coding_related.k = "false"
    /\ data.reason.k = "str"

\* The reason as a console shows it: without its tags when they balance.
ReasonShown == _safe_render_markup(data.reason.s).plain

\* C9: when the response has is_coding_related false, the renderer is never
\* called, the run writes an error message holding the reason text to the
\* error stream, and the process exits with a status other than 0.
C9_RejectionReported ==
    Rejected =>
        /\ nRender = 0
        /\ Finished =>
              /\ exit_code # 0
              /\ \E i \in 1..Len(err) :
                    err[i].via = "echo_err" /\ Contains(err[i].text, ReasonShown)

\* The prompt given on the command line or on standard input is empty or
\* blank.
BlankPrompt ==
    /\ argv.kind = "ok"
    /\ \/ argv.prompt # None /\ Strip(argv.prompt.s) = <<>>
       \/ argv.prompt = None /\ ~stdin.tty /\ Strip(stdin.text) = <<>>

\* C10: with an empty or blank prompt, from the argument or from standard
\* input, the remote model is never called and the process exits with a
\* status other than 0.
C10_BlankPromptRefused ==
    BlankPrompt => (nRemote = 0 /\ (Finished => exit_code # 0))

----------------------------------------------------------------------------
(* The failures of a run and how it ends *)

\* The exception in front of the handlers is analyze_prompt's wrapping of a
\* failure of the kind its message starts with.
AnalysisErrorOf(kind) ==
    exc.type = "PromptAnalysisError" /\ exc.msg # <<>> /\ exc.msg[1] = kind

ConfigFailed == AnalysisErrorOf("Configuration error: ")

RemoteFailed == AnalysisErrorOf("Error analyzing prompt: ")

DecodeFailed == AnalysisErrorOf("Received invalid analysis format from Gemini: ")

\* An exception of another type left analyze_prompt or display_analysis.
UnexpectedRaised ==
    nRemote > 0 /\ exc.type \in {"AttributeError", "MarkupError"}

RunFailed == ConfigFailed \/ RemoteFailed \/ DecodeFailed \/ UnexpectedRaised

\* echo_err wrote its line for the exception, the last thing on the error
\* stream.
ErrorReported ==
    /\ err # <<>>
    /\ err[Len(err)].via = "echo_err"
    /\ Contains(err[Len(err)].text, _safe_render_markup(exc.msg).plain)

\* C11: a run in which the configuration, the remote call or the decoding
\* fails, or an unexpected exception is raised in analysis or rendering,
\* reports the error on the error stream and exits with status 1.
C11_FailureReported ==
    (Finished /\ RunFailed) => (exit_code = 1 /\ ErrorReported)

----------------------------------------------------------------------------
(* What the renderer is given *)

DisplaySteps == {"display_1", "display_2", "display_3", "display_4"}

\* A metric with a number, an explanation and a list of suggestions.
PopulatedMetric(mt) ==
    /\ mt.k = "obj"
    /\ mt.score.k \in {"num", "nan"}
    /\ mt.explanation.k = "str"
    /\ mt.suggestions.k = "list"

\* A result of the full-analysis variant with every analysis field set.
FullResult(r) ==
    /\ r.is_coding_related
    /\ r.overall_score.k \in {"num", "nan"}
    /\ r.overall_assessment.k = "str"
    /\ \A m \in MetricSet : PopulatedMetric(MetricField(r, m))
    /\ r.validation_reason = None

\* C12: display_analysis is called only when the remote call and the
\* decoder have returned and the result is a full analysis with every
\* field set: never after a configuration, transport or decode failure,
\* never with a rejected or partly filled result.
C12_RenderOnlyFull ==
    /\ pc \in DisplaySteps =>
          /\ exc = NoExc
          /\ nRemote = 1 /\ nDecode = 1
    /\ (pc \in DisplaySteps \/ nRender > 0) =>
          /\ result.ok /\ FullResult(result.v)
          /\ result = from_dict(data)
          /\ ~(ConfigFailed \/ RemoteFailed \/ DecodeFailed)

\* The renderer has been called, on a result that lacks its optional part.
C12_Witness ==
    /\ nRender = 1
    /\ result.ok /\ result.v.improved_prompt = None

----------------------------------------------------------------------------
(* Interrupts *)

\* The line echo_err writes for a KeyboardInterrupt.
InterruptLine ==
    ErrLine("echo_err", <<"!", Blank, "keyboard interrupt raised">>)

\* C13: a KeyboardInterrupt raised while run() handles the arguments, calls
\* the remote model, decodes or renders is taken by run()'s handler for it,
\* and the process exits with status 0.
C13_InterruptExitsZero ==
    interrupted =>
        /\ pc \in {"except_interrupt", "exited"}
        /\ exc.type = "KeyboardInterrupt"
        /\ pc = "exited" => (exit_code = 0 /\ err # <<>> /\ err[Len(err)] = InterruptLine)

\* The interrupt came while the sections were being written.
C13_Witness ==
    /\ interrupted /\ pc = "exited"
    /\ nRender = 1 /\ Len(Sections) = 2

----------------------------------------------------------------------------
(* A metric whose score is bad *)

\* The entry of metric m is a mapping whose score is missing or is no number.
BadScore(d, m) ==
    /\ d.metrics.k = "obj"
    /\ d.metrics.e[m].k = "obj"
    /\ ~Coercible(d.metrics.e[m].score)

\* Metric m has a bad score, and every field the decoder reads before it is
\* present and well-formed.
FirstBadScore(d, m) ==
    /\ BadScore(d, m)
    /\ \E i \in 4..Len(Required) :
          Required[i] = m /\ \A j \in 1..(i - 1) : WellFormed(d, j)

\* C14: when the score of a metric entry is missing or cannot be made a
\* float, decoding fails with a ValueError whose message names the metric
\* whose score was bad (stated here for the mappings in which nothing the
\* decoder reads before that score is wrong).
C14_BadScoreNamesMetric ==
    (pc = "decoded" /\ RelatedOrUnset(data))
        => \A m \in MetricSet :
              FirstBadScore(data, m)
                  => /\ ~result.ok
                     /\ result.e.type = "ValueError"
                     /\ Contains(result.e.msg, <<m>>)

----------------------------------------------------------------------------
(* The prompt as the first section shows it *)

\* The panel of the first section holds exactly the tokens of text, none of
\* them styled.
PromptPanelShows(text) ==
    \E i \in 1..Len(out) :
        /\ out[i].section = "Your Prompt" /\ out[i].kind = "panel"
        /\ out[i].text = text
        /\ out[i].bold = {}

\* C15: whatever the prompt holds, bracketed text that reads as a markup
\* tag included, once display_analysis has written its first section the
\* panel shows the prompt as given: nothing taken as markup, nothing left
\* out, no error.
C15_PromptVerbatim ==
    (nRender > 0 /\ pc # "display_1") => PromptPanelShows(prompt_text)

----------------------------------------------------------------------------
(* One pass *)

\* C16: in a run the remote call, the decoding and the rendering happen at
\* most once each and only in that order: nothing is retried after a
\* failure, and none of the three happens a second time.
C16_OncePerRun ==
    [][ /\ nRemote' # nRemote =>
              (nRemote = 0 /\ nRemote' = 1 /\ nDecode = 0 /\ nRender = 0)
        /\ nDecode' # nDecode =>
              (nDecode = 0 /\ nDecode' = 1 /\ nRemote = 1 /\ nRender = 0)
        /\ nRender' # nRender =>
              (nRender = 0 /\ nRender' = 1 /\ nRemote = 1 /\ nDecode = 1)
        /\ exc # NoExc =>
              (nRemote' = nRemote /\ nDecode' = nDecode /\ nRender' = nRender)
      ]_vars

\* A run that made the remote call, decoded and rendered has ended.
C16_Witness ==
    /\ pc = "exited" /\ ~interrupted
    /\ nRemote = 1 /\ nDecode = 1 /\ nRender = 1

----------------------------------------------------------------------------
(* An invalid command line *)

\* C17: when the command line is invalid, ArgParser.error ends the process
\* with status 0: no handler of run() takes an exception, and the remote
\* model is not called.
C17_InvalidArgsExitZero ==
    argv.kind = "invalid" =>
        /\ nRemote = 0
        /\ pc \in {"start", "except_interrupt", "exited"}
        /\ Finished => exit_code = 0

====
